---- MODULE Spec2Model ----
(***************************************************************************)
(* The match statistics aggregation of the cricket report scripts:         *)
(*   process_stats       (reportdeepseek_v3.py), called by analyze_match   *)
(*   process_match_data  (yamlopenrouteragent.py), called by               *)
(*                        analyze_cricket_match                            *)
(* Both fold the deliveries of data['innings'] into per-batsman,           *)
(* per-bowler and per-team aggregates and then derive the rates.           *)
(*                                                                         *)
(* The loops iterate data['innings'] and each innings' deliveries; the     *)
(* model lets the iterators yield the next innings or delivery             *)
(* nondeterministically, and the variable data records what they have      *)
(* yielded, so that every record within the bounds is covered.             *)
(*                                                                         *)
(* Python floats rounded to 2 decimals are kept as integers in hundredths  *)
(* (strike_rate 400.0 is 40000), overs rounded to 1 decimal in tenths.     *)
(***************************************************************************)
EXTENDS Integers, Sequences, FiniteSets, TLC

VARIABLES impl, data, stats, pc, exc, returned, result

vars == <<impl, data, stats, pc, exc, returned, result>>

----------------------------------------------------------------------------
(* Bounds and input domains *)

\* Deliveries in one record, over all its innings.
MaxBalls == 3

\* The keys of the innings of a match file, in order.
InningsNames == <<"1st innings", "2nd innings">>

Teams == {"T1", "T2"}

Impls == {"process_stats", "process_match_data"}

None == [type |-> "NoneType"]

KeyError(key) == [type |-> "KeyError", key |-> key]

ZeroDivisionError == [type |-> "ZeroDivisionError"]

\* Well-formed ball_data values: batsman, bowler, the runs breakdown, and the
\* optional keys 'extras' (extra type -> runs) and 'wicket'.
ValidDeliveries ==
    { [batsman |-> "P1", bowler |-> "B1", runs |-> [batsman |-> 4, extras |-> 0, total |-> 4]],
      [batsman |-> "P1", bowler |-> "B2", runs |-> [batsman |-> 6, extras |-> 0, total |-> 6]],
      [batsman |-> "P2", bowler |-> "B1", runs |-> [batsman |-> 5, extras |-> 0, total |-> 5]],
      [batsman |-> "P2", bowler |-> "B2", runs |-> [batsman |-> 0, extras |-> 0, total |-> 0],
       wicket |-> [kind |-> "bowled"]],
      [batsman |-> "P1", bowler |-> "B1", runs |-> [batsman |-> 0, extras |-> 1, total |-> 1],
       extras |-> [wides |-> 1]],
      [batsman |-> "P2", bowler |-> "B1", runs |-> [batsman |-> 0, extras |-> 3, total |-> 3],
       extras |-> [noballs |-> 1, byes |-> 2]],
      [batsman |-> "P2", bowler |-> "B2", runs |-> [batsman |-> 4, extras |-> 1, total |-> 5],
       extras |-> [noballs |-> 1]],
      [batsman |-> "P1", bowler |-> "B2", runs |-> [batsman |-> 1, extras |-> 0, total |-> 1],
       wicket |-> [kind |-> "run out"]] }

\* ball_data values that lack a required key.
MalformedDeliveries ==
    { [bowler |-> "B1", runs |-> [batsman |-> 1, extras |-> 0, total |-> 1]],
      [batsman |-> "P1", runs |-> [batsman |-> 1, extras |-> 0, total |-> 1]],
      [batsman |-> "P1", bowler |-> "B1"],
      [batsman |-> "P1"],
      [batsman |-> "P2", bowler |-> "B2", runs |-> [extras |-> 0, total |-> 1]],
      [batsman |-> "P2", bowler |-> "B2", runs |-> [batsman |-> 1, extras |-> 0]] }

Deliveries == ValidDeliveries \cup MalformedDeliveries

\* Longer records of fewer kinds of delivery: an over and more of one
\* bowler to one batsman, and a delivery without runs.total.
MaxOverBalls == 7

OverDeliveries ==
    {d \in ValidDeliveries : d.batsman = "P1" /\ d.bowler = "B1"}
      \cup {d \in MalformedDeliveries :
               {"batsman", "bowler", "runs"} \subseteq DOMAIN d
                 /\ "total" \notin DOMAIN d.runs}

\* Records to reorder: the deliveries of one bowler to both batsmen, a
\* wicket of the other bowler, and a delivery without bowler.
MaxOrderBalls == 3

OrderDeliveries ==
    {d \in ValidDeliveries : d.bowler = "B1" \/ d.runs.total = 0}
      \cup {d \in MalformedDeliveries :
               DOMAIN d = {"batsman", "runs"}}

----------------------------------------------------------------------------
(* Dictionaries *)

\* defaultdict.__getitem__: the entry, or the default a missing key gets.
Entry(d, k, default) == IF k \in DOMAIN d THEN d[k] ELSE default

\* d[k] = v
Put(d, k, v) == [x \in DOMAIN d \cup {k} |-> IF x = k THEN v ELSE d[x]]

\* Touching d[k] of a defaultdict creates the entry when it is missing.
Touch(d, k, default) == Put(d, k, Entry(d, k, default))

EmptyDict == [x \in {} |-> 0]

----------------------------------------------------------------------------
(* Rounding *)

\* round(n / d, 0) of Python for n >= 0, d > 0: to nearest, ties to even.
RoundHalfEven(n, d) ==
    LET q == n \div d
        r == n % d
    IN  IF 2 * r < d THEN q
        ELSE IF 2 * r > d THEN q + 1
        ELSE IF q % 2 = 0 THEN q ELSE q + 1

----------------------------------------------------------------------------
(* reportdeepseek_v3.py: process_stats and its helpers *)

\* The default entries of the defaultdicts of process_stats.
NewBatting == [runs |-> 0, balls |-> 0, fours |-> 0, sixes |-> 0]

NewBowling == [runs |-> 0, wickets |-> 0, balls |-> 0]

\* A boundary test that takes every score of four or more for a four.
IsFourOrMore(runs) == runs >= 4

\* if runs == 4: batting_stats[batsman]['4s'] += 1
IsFour(runs) == runs = 4

\* if runs == 6: batting_stats[batsman]['6s'] += 1
IsSix(runs) == runs = 6

\* A ball count that leaves out the deliveries that carry extras.
BallsFacedLegalOnly(balls, ball_data) ==
    IF "extras" \in DOMAIN ball_data THEN balls ELSE balls + 1

\* batting_stats[batsman]['balls'] += 1
BallsFaced(balls, ball_data) == balls + 1

\* if 'wicket' in ball_data: bowling_stats[bowler]['wickets'] += 1
WicketsTaken(wickets, ball_data) ==
    IF "wicket" \in DOMAIN ball_data THEN wickets + 1 ELSE wickets

\* update_batting_stats over a defaultdict whose factory hands out one shared
\* dictionary: every batsman's entry is the same object.
UpdateBattingStatsShared(batting_stats, ball_data) ==
    IF "batsman" \notin DOMAIN ball_data
    THEN [val |-> batting_stats, exc |-> KeyError("batsman")]
    ELSE IF "runs" \notin DOMAIN ball_data
    THEN [val |-> batting_stats, exc |-> KeyError("runs")]
    ELSE IF "batsman" \notin DOMAIN ball_data.runs
    THEN [val |-> batting_stats, exc |-> KeyError("batsman")]
    ELSE LET batsman == ball_data.batsman
             runs    == ball_data.runs.batsman
             old     == Entry(batting_stats, batsman, NewBatting)
             new     == [runs  |-> old.runs + runs,
                         balls |-> old.balls + 1,
                         fours |-> IF runs = 4 THEN old.fours + 1 ELSE old.fours,
                         sixes |-> IF runs = 6 THEN old.sixes + 1 ELSE old.sixes]
         IN  [val |-> [x \in DOMAIN batting_stats \cup {batsman} |-> new],
              exc |-> None]

\* update_batting_stats: [val |-> the dictionary afterwards, exc |-> the
\* exception it raised or None]. Both keys are read before the entry is
\* touched.
UpdateBattingStats(batting_stats, ball_data) ==
    IF "batsman" \notin DOMAIN ball_data
    THEN [val |-> batting_stats, exc |-> KeyError("batsman")]
    ELSE IF "runs" \notin DOMAIN ball_data
    THEN [val |-> batting_stats, exc |-> KeyError("runs")]
    ELSE IF "batsman" \notin DOMAIN ball_data.runs
    THEN [val |-> batting_stats, exc |-> KeyError("batsman")]
    ELSE LET batsman == ball_data.batsman
             runs    == ball_data.runs.batsman
             old     == Entry(batting_stats, batsman, NewBatting)
         IN  [val |-> Put(batting_stats, batsman,
                          [runs  |-> old.runs + runs,
                           balls |-> BallsFaced(old.balls, ball_data),
                           fours |-> IF IsFour(runs) THEN old.fours + 1 ELSE old.fours,
                           sixes |-> IF IsSix(runs) THEN old.sixes + 1 ELSE old.sixes]),
              exc |-> None]

\* update_bowling_stats: the augmented assignment touches
\* bowling_stats[bowler] before it reads ball_data['runs']['total'].
UpdateBowlingStats(bowling_stats, ball_data) ==
    IF "bowler" \notin DOMAIN ball_data
    THEN [val |-> bowling_stats, exc |-> KeyError("bowler")]
    ELSE LET bowler  == ball_data.bowler
             touched == Touch(bowling_stats, bowler, NewBowling)
             old     == touched[bowler]
         IN  IF "runs" \notin DOMAIN ball_data
             THEN [val |-> touched, exc |-> KeyError("runs")]
             ELSE IF "total" \notin DOMAIN ball_data.runs
             THEN [val |-> touched, exc |-> KeyError("total")]
             ELSE [val |-> Put(touched, bowler,
                               [runs    |-> old.runs + ball_data.runs.total,
                                wickets |-> WicketsTaken(old.wickets, ball_data),
                                balls   |-> old.balls + 1]),
                   exc |-> None]

\* A team total that is assigned, not added to.
AddTeamScoreOverwrite(team_scores, team, ball_data) ==
    Put(team_scores, team, ball_data.runs.total)

\* A team total that adds the batsman's runs and so loses the extras.
AddTeamScoreBatsmanRuns(team_scores, team, ball_data) ==
    Put(team_scores, team, Entry(team_scores, team, 0) + ball_data.runs.batsman)

\* stats['team_scores'][team] += ball_data['runs']['total']
AddTeamScore(team_scores, team, ball_data) ==
    Put(team_scores, team, Entry(team_scores, team, 0) + ball_data.runs.total)

\* A start that already holds an entry for a player of the squad.
ProcessStatsInitSeeded ==
    [batting |-> [P1 |-> NewBatting], bowling |-> EmptyDict, team_scores |-> EmptyDict]

\* The stats dictionary process_stats starts from.
ProcessStatsInit ==
    [batting |-> EmptyDict, bowling |-> EmptyDict, team_scores |-> EmptyDict]

\* The body of the delivery loop of process_stats: [stats, exc].
ProcessStatsDelivery(s, team, ball_data) ==
    LET b == UpdateBattingStats(s.batting, ball_data)
        s1 == [s EXCEPT !.batting = b.val]
    IN  IF b.exc # None THEN [stats |-> s1, exc |-> b.exc]
        ELSE LET w == UpdateBowlingStats(s1.bowling, ball_data)
                 s2 == [s1 EXCEPT !.bowling = w.val]
             IN  IF w.exc # None THEN [stats |-> s2, exc |-> w.exc]
                 ELSE [stats |-> [s2 EXCEPT !.team_scores =
                                      AddTeamScore(s2.team_scores, team, ball_data)],
                       exc |-> None]

\* data['strike_rate'] = round((runs / balls) * 100, 2) if balls > 0 else 0
StrikeRate(runs, balls) ==
    IF balls > 0 THEN RoundHalfEven(runs * 10000, balls) ELSE 0

\* An economy over whole overs only (balls // 6).
EconomyWholeOvers(runs, balls) ==
    IF balls \div 6 > 0 THEN RoundHalfEven(runs * 100, balls \div 6) ELSE 0

\* overs = balls / 6; round(runs / overs, 2) if overs > 0 else 0
Economy(runs, balls) ==
    IF balls > 0 THEN RoundHalfEven(runs * 600, balls) ELSE 0

\* data['overs'] = round(balls / 6, 1), in tenths
Overs(balls) == RoundHalfEven(balls * 10, 6)

\* calculate_derived_metrics
CalculateDerivedMetrics(s) ==
    [s EXCEPT
       !.batting = [p \in DOMAIN s.batting |->
                      [runs  |-> s.batting[p].runs,
                       balls |-> s.batting[p].balls,
                       fours |-> s.batting[p].fours,
                       sixes |-> s.batting[p].sixes,
                       strike_rate |-> StrikeRate(s.batting[p].runs, s.batting[p].balls)]],
       !.bowling = [p \in DOMAIN s.bowling |->
                      [runs    |-> s.bowling[p].runs,
                       wickets |-> s.bowling[p].wickets,
                       balls   |-> s.bowling[p].balls,
                       economy |-> Economy(s.bowling[p].runs, s.bowling[p].balls),
                       overs   |-> Overs(s.bowling[p].balls)]]]

----------------------------------------------------------------------------
(* yamlopenrouteragent.py: process_match_data *)

\* The default entries of the defaultdicts of process_match_data.
PmdNewBatting == [runs |-> 0, balls |-> 0]

PmdNewBowling == [runs |-> 0, wickets |-> 0, balls |-> 0]

\* A start that already holds the 'total' key of the extras.
PmdInitWithTotal ==
    [batting |-> EmptyDict, bowling |-> EmptyDict, extras |-> [total |-> 0],
     team_scores |-> EmptyDict]

\* The stats dictionary process_match_data starts from.
PmdInit ==
    [batting |-> EmptyDict, bowling |-> EmptyDict, extras |-> EmptyDict,
     team_scores |-> EmptyDict]

\* "Batting stats": stats['batting'][batsman] is touched before
\* ball_data['runs']['batsman'] is read.
PmdBatting(batting, ball_data) ==
    IF "batsman" \notin DOMAIN ball_data
    THEN [val |-> batting, exc |-> KeyError("batsman")]
    ELSE LET batsman == ball_data.batsman
             touched == Touch(batting, batsman, PmdNewBatting)
             old     == touched[batsman]
         IN  IF "runs" \notin DOMAIN ball_data
             THEN [val |-> touched, exc |-> KeyError("runs")]
             ELSE IF "batsman" \notin DOMAIN ball_data.runs
             THEN [val |-> touched, exc |-> KeyError("batsman")]
             ELSE [val |-> Put(touched, batsman,
                               [runs  |-> old.runs + ball_data.runs.batsman,
                                balls |-> old.balls + 1]),
                   exc |-> None]

\* "Bowling stats": runs and balls; the wickets field is never written.
PmdBowling(bowling, ball_data) ==
    IF "bowler" \notin DOMAIN ball_data
    THEN [val |-> bowling, exc |-> KeyError("bowler")]
    ELSE LET bowler  == ball_data.bowler
             touched == Touch(bowling, bowler, PmdNewBowling)
             old     == touched[bowler]
         IN  IF "runs" \notin DOMAIN ball_data
             THEN [val |-> touched, exc |-> KeyError("runs")]
             ELSE IF "total" \notin DOMAIN ball_data.runs
             THEN [val |-> touched, exc |-> KeyError("total")]
             ELSE [val |-> Put(touched, bowler,
                               [runs    |-> old.runs + ball_data.runs.total,
                                wickets |-> old.wickets,
                                balls   |-> old.balls + 1]),
                   exc |-> None]

\* stats['extras'][extra_type] += 1; stats['extras']['total'] += 1
PmdCountExtra(extras, extra_type) ==
    LET counted == Put(extras, extra_type, Entry(extras, extra_type, 0) + 1)
    IN  Put(counted, "total", Entry(counted, "total", 0) + 1)

\* for extra_type in ball_data['extras']: ...
RECURSIVE PmdExtrasLoop(_, _)
PmdExtrasLoop(extras, types) ==
    IF types = {} THEN extras
    ELSE LET extra_type == CHOOSE t \in types : TRUE
         IN  PmdExtrasLoop(PmdCountExtra(extras, extra_type), types \ {extra_type})

\* An extras count that adds to 'total' once for the delivery, not once for
\* each extra type.
PmdExtrasOncePerDelivery(extras, ball_data) ==
    IF "extras" \in DOMAIN ball_data /\ DOMAIN ball_data.extras # {}
    THEN LET types == DOMAIN ball_data.extras
         IN  [k \in DOMAIN extras \cup types \cup {"total"} |->
                 Entry(extras, k, 0) + (IF k \in types \/ k = "total" THEN 1 ELSE 0)]
    ELSE extras

\* "Extras": if 'extras' in ball_data: ...
PmdExtras(extras, ball_data) ==
    IF "extras" \in DOMAIN ball_data
    THEN PmdExtrasLoop(extras, DOMAIN ball_data.extras)
    ELSE extras

\* "Team totals": stats['team_scores'][team] += ball_data['runs']['total']
PmdTeamTotal(team_scores, team, ball_data) ==
    Put(team_scores, team, Entry(team_scores, team, 0) + ball_data.runs.total)

\* The body of the delivery loop of process_match_data: [stats, exc].
PmdDelivery(s, team, ball_data) ==
    LET b == PmdBatting(s.batting, ball_data)
        s1 == [s EXCEPT !.batting = b.val]
    IN  IF b.exc # None THEN [stats |-> s1, exc |-> b.exc]
        ELSE LET w == PmdBowling(s1.bowling, ball_data)
                 s2 == [s1 EXCEPT !.bowling = w.val]
             IN  IF w.exc # None THEN [stats |-> s2, exc |-> w.exc]
                 ELSE [stats |-> [s2 EXCEPT
                                    !.extras = PmdExtras(s2.extras, ball_data),
                                    !.team_scores =
                                        PmdTeamTotal(s2.team_scores, team, ball_data)],
                       exc |-> None]

\* round((runs / balls) * 100, 2), the division unguarded
PmdStrikeRate(runs, balls) == RoundHalfEven(runs * 10000, balls)

\* round(runs / (balls / 6), 2), the division unguarded
PmdEconomy(runs, balls) == RoundHalfEven(runs * 600, balls)

\* "Calculate derived metrics": [stats, exc]; a division by zero balls
\* raises ZeroDivisionError.
PmdDerivedMetrics(s) ==
    IF \/ \E p \in DOMAIN s.batting : s.batting[p].balls = 0
       \/ \E p \in DOMAIN s.bowling : s.bowling[p].balls = 0
    THEN [stats |-> s, exc |-> ZeroDivisionError]
    ELSE [stats |->
            [s EXCEPT
               !.batting = [p \in DOMAIN s.batting |->
                              [runs  |-> s.batting[p].runs,
                               balls |-> s.batting[p].balls,
                               strike_rate |->
                                   PmdStrikeRate(s.batting[p].runs, s.batting[p].balls)]],
               !.bowling = [p \in DOMAIN s.bowling |->
                              [runs    |-> s.bowling[p].runs,
                               wickets |-> s.bowling[p].wickets,
                               balls   |-> s.bowling[p].balls,
                               economy |->
                                   PmdEconomy(s.bowling[p].runs, s.bowling[p].balls)]]],
          exc |-> None]

----------------------------------------------------------------------------
(* The aggregation pass and its caller *)

InitStats(i) == IF i = "process_stats" THEN ProcessStatsInit ELSE PmdInit

\* One delivery through the loop body of the implementation.
Deliver(i, s, team, ball_data) ==
    IF i = "process_stats" THEN ProcessStatsDelivery(s, team, ball_data)
    ELSE PmdDelivery(s, team, ball_data)

\* The derived metrics of the implementation: [stats, exc].
Derive(i, s) ==
    IF i = "process_stats" THEN [stats |-> CalculateDerivedMetrics(s), exc |-> None]
    ELSE PmdDerivedMetrics(s)

\* The pass as a function of the record: the loops over the innings list
\* inns from the statistics s, then the derived metrics: [stats, exc].
RECURSIVE AggregateDeliveries(_, _, _, _)
AggregateDeliveries(i, s, team, deliveries) ==
    IF deliveries = <<>> THEN [stats |-> s, exc |-> None]
    ELSE LET out == Deliver(i, s, team, Head(deliveries))
         IN  IF out.exc # None THEN out
             ELSE AggregateDeliveries(i, out.stats, team, Tail(deliveries))

RECURSIVE AggregateInnings(_, _, _)
AggregateInnings(i, s, inns) ==
    IF inns = <<>> THEN Derive(i, s)
    ELSE LET out == AggregateDeliveries(i, s, Head(inns).team, Head(inns).deliveries)
         IN  IF out.exc # None THEN out
             ELSE AggregateInnings(i, out.stats, Tail(inns))

Aggregate(i, record) == AggregateInnings(i, InitStats(i), record)

\* The number of deliveries the loops have taken from the record.
RECURSIVE BallCount(_)
BallCount(inns) ==
    IF inns = <<>> THEN 0
    ELSE Len(inns[1].deliveries) + BallCount(Tail(inns))

Init ==
    /\ impl \in Impls
    /\ data = <<>>
    /\ stats = InitStats(impl)
    /\ pc = "loop"
    /\ exc = None
    /\ returned = None
    /\ result = None

\* for innings in data['innings']: the next innings and its batting team.
NextInnings ==
    /\ pc = "loop"
    /\ Len(data) < Len(InningsNames)
    /\ \E team \in Teams :
          data' = Append(data, [name |-> InningsNames[Len(data) + 1],
                                team |-> team, deliveries |-> <<>>])
    /\ UNCHANGED <<impl, stats, pc, exc, returned, result>>

\* for delivery in ...['deliveries']: the loop body on the next delivery of
\* the current innings; an exception leaves the loops and the function.
ProcessDeliveryFrom(deliveries, max) ==
    /\ pc = "loop"
    /\ Len(data) > 0
    /\ BallCount(data) < max
    /\ \E ball_data \in deliveries :
          LET n   == Len(data)
              out == Deliver(impl, stats, data[n].team, ball_data)
          IN  /\ data' = [data EXCEPT ![n].deliveries = Append(@, ball_data)]
              /\ stats' = out.stats
              /\ exc' = out.exc
              /\ pc' = IF out.exc = None THEN "loop" ELSE "raised"
    /\ UNCHANGED <<impl, returned, result>>

\* The loops are exhausted: the derived metrics, then return stats.
Return ==
    /\ pc = "loop"
    /\ LET out == Derive(impl, stats)
       IN  /\ stats' = out.stats
           /\ exc' = out.exc
           /\ IF out.exc = None
              THEN pc' = "returned" /\ returned' = out.stats
              ELSE pc' = "raised" /\ returned' = returned
    /\ UNCHANGED <<impl, data, result>>

\* A handler that hands on the statistics gathered up to the exception.
HandleExceptionReturnsPartial ==
    /\ pc = "raised"
    /\ pc' = "handled"
    /\ result' = [stats |-> stats, analysis |-> "Analysis unavailable due to an error."]
    /\ UNCHANGED <<impl, data, stats, exc, returned>>

\* except Exception as e: in analyze_match and analyze_cricket_match.
HandleException ==
    /\ pc = "raised"
    /\ pc' = "handled"
    /\ result' = IF impl = "process_stats"
                 THEN [stats |-> None,
                       analysis |-> "Analysis unavailable due to an error."]
                 ELSE [text |-> "Error: ", detail |-> exc]
    /\ UNCHANGED <<impl, data, stats, exc, returned>>

ProcessDelivery == ProcessDeliveryFrom(Deliveries, MaxBalls)

Next == NextInnings \/ ProcessDelivery \/ Return \/ HandleException

Spec == Init /\ [][Next]_vars

\* The pass over the longer records.
ProcessOverDelivery == ProcessDeliveryFrom(OverDeliveries, MaxOverBalls)

NextOvers == NextInnings \/ ProcessOverDelivery \/ Return \/ HandleException

SpecOvers == Init /\ [][NextOvers]_vars

\* The pass over the records to reorder.
ProcessOrderDelivery == ProcessDeliveryFrom(OrderDeliveries, MaxOrderBalls)

NextOrder == NextInnings \/ ProcessOrderDelivery \/ Return \/ HandleException

SpecOrder == Init /\ [][NextOrder]_vars

----------------------------------------------------------------------------
(* The record, as the claims speak of it *)

BatsmanIds == {"P1", "P2"}

BowlerIds == {"B1", "B2"}

ExtraTypes == {"wides", "noballs", "byes"}

\* The deliveries the loops have taken: <<innings index, delivery index>>.
Positions ==
    UNION { { <<i, j>> : j \in 1..Len(data[i].deliveries) } : i \in 1..Len(data) }

Ball(p) == data[p[1]].deliveries[p[2]]

RECURSIVE SumOver(_, _)
SumOver(f, S) ==
    IF S = {} THEN 0
    ELSE LET x == CHOOSE y \in S : TRUE
         IN  f[x] + SumOver(f, S \ {x})

TotalRuns == [p \in Positions |-> Ball(p).runs.total]

BatsmanRuns == [p \in Positions |-> Ball(p).runs.batsman]

\* The aggregation is under way or has returned: no exception was raised.
Aggregating == pc \in {"loop", "returned"}

----------------------------------------------------------------------------
(* C1 *)

\* C1: the team scores add up to the total runs of all deliveries, and each
\* team's score is the sum of runs.total over the deliveries of the innings
\* that team batted in; a team without a delivery has no score.
C1_TeamScores ==
    Aggregating =>
      /\ DOMAIN stats.team_scores \subseteq Teams
      /\ \A t \in Teams :
            Entry(stats.team_scores, t, 0) =
                SumOver(TotalRuns, {p \in Positions : data[p[1]].team = t})
      /\ SumOver(stats.team_scores, DOMAIN stats.team_scores) =
            SumOver(TotalRuns, Positions)

\* Two innings of different teams, each with a delivery that scored, one of
\* them with extras, have been aggregated.
C1_Witness ==
    /\ pc = "returned"
    /\ Len(data) = 2
    /\ data[1].team # data[2].team
    /\ \E p, q \in Positions :
          /\ p[1] = 1 /\ q[1] = 2
          /\ Ball(p).runs.total > 0
          /\ Ball(q).runs.total > Ball(q).runs.batsman

----------------------------------------------------------------------------
(* C2 *)

\* C2: for every batsman id, balls is the number of deliveries that id faced
\* (those with extras or a wicket included) and runs the sum of runs.batsman
\* over them.
C2_BattingTotals ==
    Aggregating =>
      /\ DOMAIN stats.batting \subseteq BatsmanIds
      /\ \A b \in BatsmanIds :
            LET faced == {p \in Positions : Ball(p).batsman = b}
                agg   == Entry(stats.batting, b, [runs |-> 0, balls |-> 0])
            IN  /\ agg.balls = Cardinality(faced)
                /\ agg.runs = SumOver(BatsmanRuns, faced)
                /\ b \in DOMAIN stats.batting <=> faced # {}

\* A batsman who faced a delivery with extras and one with a wicket has been
\* aggregated.
C2_Witness ==
    /\ pc = "returned"
    /\ \E p, q \in Positions :
          /\ Ball(p).batsman = Ball(q).batsman
          /\ "extras" \in DOMAIN Ball(p)
          /\ "wicket" \in DOMAIN Ball(q)

----------------------------------------------------------------------------
(* C3 *)

FoursOf(s, b) == IF b \in DOMAIN s.batting THEN s.batting[b].fours ELSE 0

SixesOf(s, b) == IF b \in DOMAIN s.batting THEN s.batting[b].sixes ELSE 0

\* A step of the delivery loop that processed its delivery without raising.
DeliveryStep ==
    /\ pc = "loop" /\ pc' = "loop"
    /\ BallCount(data') = BallCount(data) + 1

\* The delivery a DeliveryStep has processed.
Delivered == data'[Len(data')].deliveries[Len(data'[Len(data')].deliveries)]

\* C3: in process_stats, one delivery adds 1 to the striker's fours exactly
\* when runs.batsman is 4 and 1 to the sixes exactly when it is 6; any other
\* value adds to neither and no delivery adds to both.
C3_Boundaries ==
    [][ (impl = "process_stats" /\ DeliveryStep) =>
          LET b  == Delivered.batsman
              r  == Delivered.runs.batsman
              d4 == FoursOf(stats', b) - FoursOf(stats, b)
              d6 == SixesOf(stats', b) - SixesOf(stats, b)
          IN  /\ d4 = (IF r = 4 THEN 1 ELSE 0)
              /\ d6 = (IF r = 6 THEN 1 ELSE 0)
              /\ ~ (d4 > 0 /\ d6 > 0) ]_vars

\* process_stats has processed a four, a five and a six.
C3_Witness ==
    /\ impl = "process_stats"
    /\ Aggregating
    /\ \A r \in {4, 5, 6} : \E p \in Positions : Ball(p).runs.batsman = r

----------------------------------------------------------------------------
(* C4 *)

\* C4: for every bowler id, in both implementations, runs is the sum of
\* runs.total over the deliveries that id bowled, balls their number and
\* wickets the number of them that carry a wicket marker.
C4_BowlingTotals ==
    Aggregating =>
      \A b \in BowlerIds :
         LET bowled == {p \in Positions : Ball(p).bowler = b}
             agg    == Entry(stats.bowling, b, [runs |-> 0, wickets |-> 0, balls |-> 0])
         IN  /\ agg.runs = SumOver(TotalRuns, bowled)
             /\ agg.balls = Cardinality(bowled)
             /\ agg.wickets =
                   Cardinality({p \in bowled : "wicket" \in DOMAIN Ball(p)})

\* The same of process_stats alone.
C4_ProcessStatsBowlingTotals == impl = "process_stats" => C4_BowlingTotals

----------------------------------------------------------------------------
(* C5 *)

\* The pass has ended on a record whose innings list is empty.
EmptyMatchEnded == pc # "loop" /\ data = <<>>

\* C5 as stated: an empty innings list raises EmptyMatchError and no
\* snapshot is returned.
C5_EmptyMatchError ==
    EmptyMatchEnded => (exc.type = "EmptyMatchError" /\ returned = None)

\* C5 as the code has it: an empty innings list raises nothing; the pass
\* returns a snapshot all of whose dictionaries are empty.
C5_EmptyMatchReturnsEmptySnapshot ==
    EmptyMatchEnded =>
      /\ pc = "returned"
      /\ exc = None
      /\ returned # None
      /\ {"batting", "bowling", "team_scores"} \subseteq DOMAIN returned
      /\ \A k \in DOMAIN returned : DOMAIN returned[k] = {}

\* process_match_data has returned from a record without innings.
C5_Witness == pc = "returned" /\ data = <<>> /\ impl = "process_match_data"

----------------------------------------------------------------------------
(* C6 *)

RequiredKeysMissing(ball_data) ==
    ({"batsman", "bowler", "runs"} \ DOMAIN ball_data)
      \cup (IF "runs" \in DOMAIN ball_data
            THEN {"batsman", "total"} \ DOMAIN ball_data.runs
            ELSE {})

Malformed(ball_data) == RequiredKeysMissing(ball_data) # {}

LastPosition(p) == p[1] = Len(data) /\ p[2] = Len(data[p[1]].deliveries)

\* C6 as stated: a delivery that lacks a required key aborts the pass with a
\* MalformedDeliveryError that carries the innings and delivery index, and
\* no snapshot is returned.
C6_MalformedDeliveryError ==
    \A p \in Positions :
       Malformed(Ball(p)) =>
         /\ exc.type = "MalformedDeliveryError"
         /\ {"innings", "delivery"} \subseteq DOMAIN exc
         /\ returned = None

\* C6 as the code has it: the delivery aborts the pass with a KeyError that
\* names a key the delivery lacks and carries no index; it is the last
\* delivery taken (never skipped), nothing is returned by the pass, and the
\* caller's handler returns no statistics.
C6_KeyErrorAborts ==
    \A p \in Positions :
       Malformed(Ball(p)) =>
         /\ LastPosition(p)
         /\ pc \in {"raised", "handled"}
         /\ exc.type = "KeyError"
         /\ DOMAIN exc = {"type", "key"}
         /\ exc.key \in RequiredKeysMissing(Ball(p))
         /\ returned = None
         /\ pc = "handled" => ("stats" \in DOMAIN result => result.stats = None)

\* A delivery without bowler, after a well-formed delivery of the same
\* innings, has aborted the pass and the caller has handled the exception.
C6_Witness ==
    /\ pc = "handled"
    /\ \E p \in Positions :
          /\ RequiredKeysMissing(Ball(p)) = {"bowler"}
          /\ p[2] > 1

----------------------------------------------------------------------------
(* C7 *)

Abs(x) == IF x < 0 THEN -x ELSE x

\* v hundredths is n / d rounded to 2 decimals: no hundredth is nearer.
RoundedTo2(v, n, d) == 2 * Abs(v * d - 100 * n) <= d

\* C7: at return every bowler's economy is runs / (balls / 6) and every
\* batsman's strike_rate is runs / balls * 100, rounded to 2 decimals, 0 for
\* an aggregate without balls; and no division by zero is ever raised.
C7_DerivedRates ==
    /\ exc.type # "ZeroDivisionError"
    /\ pc = "returned" =>
         /\ \A b \in DOMAIN returned.batting :
               LET agg == returned.batting[b]
               IN  IF agg.balls > 0
                   THEN RoundedTo2(agg.strike_rate, 100 * agg.runs, agg.balls)
                   ELSE agg.strike_rate = 0
         /\ \A b \in DOMAIN returned.bowling :
               LET agg == returned.bowling[b]
               IN  IF agg.balls > 0
                   THEN RoundedTo2(agg.economy, 6 * agg.runs, agg.balls)
                   ELSE agg.economy = 0

\* process_match_data, whose divisions are unguarded, has returned rates
\* that had to be rounded.
C7_Witness ==
    /\ pc = "returned"
    /\ impl = "process_match_data"
    /\ \E b \in DOMAIN returned.batting :
          (10000 * returned.batting[b].runs) % returned.batting[b].balls # 0
    /\ \E b \in DOMAIN returned.bowling :
          (600 * returned.bowling[b].runs) % returned.bowling[b].balls # 0

----------------------------------------------------------------------------
(* C8 *)

CarriesExtras(p) == "extras" \in DOMAIN Ball(p)

Carrying(t) == {p \in Positions : CarriesExtras(p) /\ t \in DOMAIN Ball(p).extras}

ExtraTypeCount == [p \in Positions |->
                     IF CarriesExtras(p) THEN Cardinality(DOMAIN Ball(p).extras) ELSE 0]

\* The extras of a snapshot; none are counted where none are kept.
ExtrasOf(s) == IF "extras" \in DOMAIN s THEN s.extras ELSE EmptyDict

\* C8 as stated: after aggregation extras[t] is the number of deliveries
\* that carry extra type t and extras['total'] the number of deliveries
\* that carry extras.
C8_ExtrasPerDelivery ==
    pc = "returned" =>
      /\ \A t \in ExtraTypes :
            Entry(ExtrasOf(returned), t, 0) = Cardinality(Carrying(t))
      /\ Entry(ExtrasOf(returned), "total", 0) =
            Cardinality({p \in Positions : CarriesExtras(p)})

\* C8 as the code has it: process_stats keeps no extras; in
\* process_match_data extras[t] is the number of deliveries that carry extra
\* type t, whatever their run value, and extras['total'] is the number of
\* extra types carried, summed over the deliveries (1 for each delivery only
\* when each carries a single type); a delivery without extras adds nothing.
C8_ExtrasPerType ==
    Aggregating =>
      IF impl = "process_stats" THEN "extras" \notin DOMAIN stats
      ELSE /\ DOMAIN stats.extras \subseteq ExtraTypes \cup {"total"}
           /\ \A t \in ExtraTypes :
                 Entry(stats.extras, t, 0) = Cardinality(Carrying(t))
           /\ Entry(stats.extras, "total", 0) = SumOver(ExtraTypeCount, Positions)
           /\ "total" \in DOMAIN stats.extras <=> \E p \in Positions : CarriesExtras(p)

\* process_match_data has aggregated a delivery with two extra types, one
\* with one type and one without extras.
C8_Witness ==
    /\ impl = "process_match_data"
    /\ pc = "returned"
    /\ \E p, q, r \in Positions :
          /\ ExtraTypeCount[p] = 2
          /\ ExtraTypeCount[q] = 1
          /\ ~ CarriesExtras(r)

----------------------------------------------------------------------------
(* C9 *)

\* The permutations of 1..n.
Perms(n) == {f \in [1..n -> 1..n] : \A i, j \in 1..n : f[i] = f[j] => i = j}

Permuted(seq, f) == [k \in 1..Len(seq) |-> seq[f[k]]]

\* The innings with its deliveries in every order.
DeliveryOrders(innings) ==
    { [innings EXCEPT !.deliveries = Permuted(innings.deliveries, f)] :
         f \in Perms(Len(innings.deliveries)) }

\* The innings list with the deliveries of each innings in every order.
RECURSIVE WithinInnings(_)
WithinInnings(inns) ==
    IF inns = <<>> THEN {<<>>}
    ELSE { <<h>> \o t : h \in DeliveryOrders(Head(inns)), t \in WithinInnings(Tail(inns)) }

\* The record with its innings in every order and, within each innings, the
\* deliveries in every order.
Reorderings(record) ==
    UNION { WithinInnings(Permuted(record, g)) : g \in Perms(Len(record)) }

\* C9: the snapshot returned for a valid record is the one every
\* reordering of its deliveries within the innings, and of its innings,
\* yields: batting, bowling, extras, team_scores and the derived rates.
C9_OrderIndependent ==
    pc = "returned" =>
      \A r \in Reorderings(data) :
         Aggregate(impl, r) = [stats |-> returned, exc |-> None]

\* A record of two innings, the first with two different deliveries, has
\* been aggregated.
C9_Witness ==
    /\ pc = "returned"
    /\ Len(data) = 2
    /\ Len(data[1].deliveries) = 2
    /\ data[1].deliveries[1] # data[1].deliveries[2]
    /\ Len(data[2].deliveries) = 1
    /\ data[1].team # data[2].team

----------------------------------------------------------------------------
(* C10 *)

\* Dictionary d2 is d1 but for the entries of the keys in keys.
SameBut(d1, d2, keys) ==
    /\ DOMAIN d1 \ keys = DOMAIN d2 \ keys
    /\ \A k \in DOMAIN d1 \ keys : d2[k] = d1[k]

BallsOf(d, k) == IF k \in DOMAIN d THEN d[k].balls ELSE 0

\* C10: a delivery changes only the batting aggregate of its batsman, the
\* bowling aggregate of its bowler, the score of the batting team and, when
\* it carries extras, the counts of its extra types and their total; the
\* balls of its batsman and of its bowler each grow by exactly 1.
C10_Frame ==
    [][ DeliveryStep =>
          LET d == Delivered
              team == data'[Len(data')].team
          IN  /\ SameBut(stats.batting, stats'.batting, {d.batsman})
              /\ SameBut(stats.bowling, stats'.bowling, {d.bowler})
              /\ SameBut(stats.team_scores, stats'.team_scores, {team})
              /\ DOMAIN stats' = DOMAIN stats
              /\ "extras" \in DOMAIN stats =>
                    SameBut(stats.extras, stats'.extras,
                            IF "extras" \in DOMAIN d
                            THEN DOMAIN d.extras \cup {"total"} ELSE {})
              /\ BallsOf(stats'.batting, d.batsman) = BallsOf(stats.batting, d.batsman) + 1
              /\ BallsOf(stats'.bowling, d.bowler) = BallsOf(stats.bowling, d.bowler) + 1 ]_vars

\* A delivery has been processed while another batsman, another bowler and
\* another team already had their aggregates.
C10_Witness ==
    /\ pc = "loop"
    /\ Len(data) = 2
    /\ data[1].team # data[2].team
    /\ Len(data[1].deliveries) > 0
    /\ Len(data[2].deliveries) > 0
    /\ LET d == data[2].deliveries[Len(data[2].deliveries)]
       IN  \E p \in Positions :
              /\ ~ LastPosition(p)
              /\ Ball(p).batsman # d.batsman
              /\ Ball(p).bowler # d.bowler

----------------------------------------------------------------------------
(* C11 *)

BallsIn(d) == [k \in DOMAIN d |-> d[k].balls]

\* C11: between the deliveries of a pass and at its return, a batting
\* (bowling) aggregate exists for an id exactly when a processed delivery has
\* that id as batsman (bowler); so every aggregate has at least one ball when
\* the derived rates are computed, and the balls of all batsmen and the balls
\* of all bowlers each add up to the number of deliveries processed.
C11_LazyCreation ==
    /\ Aggregating =>
         /\ DOMAIN stats.batting = {Ball(p).batsman : p \in Positions}
         /\ DOMAIN stats.bowling = {Ball(p).bowler : p \in Positions}
         /\ \A b \in DOMAIN stats.batting : stats.batting[b].balls >= 1
         /\ \A b \in DOMAIN stats.bowling : stats.bowling[b].balls >= 1
         /\ SumOver(BallsIn(stats.batting), DOMAIN stats.batting) = BallCount(data)
         /\ SumOver(BallsIn(stats.bowling), DOMAIN stats.bowling) = BallCount(data)
    /\ pc = "returned" =>
         /\ returned = stats
         /\ \A b \in DOMAIN returned.batting : "strike_rate" \in DOMAIN returned.batting[b]
         /\ \A b \in DOMAIN returned.bowling : "economy" \in DOMAIN returned.bowling[b]

\* Three deliveries, all to one batsman and from both bowlers, have been
\* aggregated: the other batsman has no aggregate.
C11_Witness ==
    /\ pc = "returned"
    /\ BallCount(data) = 3
    /\ DOMAIN returned.batting = {"P1"}
    /\ DOMAIN returned.bowling = {"B1", "B2"}

\* An aggregate without balls exists only after a delivery has raised: such a
\* pass never computes the derived rates.
C11_ZeroBallsOnlyAfterRaise ==
    (\/ \E b \in DOMAIN stats.batting : stats.batting[b].balls = 0
     \/ \E b \in DOMAIN stats.bowling : stats.bowling[b].balls = 0)
       => (pc \in {"raised", "handled"} /\ returned = None)

\* A delivery without runs.total has raised and left a bowling aggregate
\* without balls.
C11_ZeroBallsReached ==
    /\ pc = "raised"
    /\ \E b \in DOMAIN stats.bowling : stats.bowling[b].balls = 0

====
